---- MODULE Spec2Model ----
(***************************************************************************)
(* Leaf-certificate cache type (ConnectCALeaf) of agent/retry_join.go:     *)
(* the Fetch state machine, the generator generateNewLeaf, the shared      *)
(* roots watcher and the renewal-time policy calculateSoftExpiry.          *)
(*                                                                         *)
(* Time is counted in ticks of 10 seconds.  A step that does not suspend   *)
(* (lock, map update, arithmetic) takes no time; time passes only while    *)
(* every in-flight Fetch is suspended in its select or in the signing RPC, *)
(* and a select whose case is ready is taken before the clock moves on.    *)
(*                                                                         *)
(* Each Fetch slot f is one cache entry (one service) of the cache         *)
(* framework, which runs at most one Fetch per entry at a time and hands   *)
(* the previous result back in opts.LastResult.  All slots share the one   *)
(* ConnectCALeaf value: rootWatchMu, rootWatchSubscribers, rootWatchCancel.*)
(*                                                                         *)
(* The file also holds the agent's retryJoin (retryJoinLAN, retryJoinWAN), *)
(* a program of its own: SpecJoin runs it, Spec and SpecConc run the       *)
(* cache type, SpecSoft runs calculateSoftExpiry on its own.               *)
(***************************************************************************)
EXTENDS Integers, Sequences, FiniteSets, TLC

\* ------------------------------------------------------------- bounds
NFetch == 2
MaxWatchers == 2
NRoots == 2
MaxTimeout == 1
MaxElapsed == 2
ConcElapsed == 1
MaxIndex == 2
StaggerSpread == 1
MaxAttempts == 2
MaxJoinLoops == 3
MaxInterval == 2
MaxSoftTime == 12

\* -------------------------------------------------- program constants
\* 20 * time.Second, in ticks of 10 s
caChangeInitialJitter == 2
\* 10 * time.Minute, in ticks of 10 s
TenMinutes == 60

Fetchers == 1..NFetch
Watchers == 1..MaxWatchers
RootIDs == 1..NRoots

\* The zero time.Time{}; every real instant of the model is >= 1.
ZeroTime == 0
IsZero(t) == t = ZeroTime

\* ---------------------------------------------------- roots and certs
HexDigit(n) ==
    <<"0","1","2","3","4","5","6","7","8","9","a","b","c","d","e","f">>[n + 1]

\* connect.HexString: two hex digits per byte, bytes joined by ":".
RECURSIVE HexString(_)
HexString(bs) ==
    IF bs = <<>> THEN <<>>
    ELSE LET b == bs[1]
             d == <<HexDigit(b \div 16), HexDigit(b % 16)>>
         IN IF Len(bs) = 1 THEN d ELSE d \o <<":">> \o HexString(Tail(bs))

\* The key of the CA behind root r, as the bytes found in a cert's
\* AuthorityKeyId.  Roots 2k and 2k+1 share one signing key (a root that is
\* replaced without a change of key).
KeyBytes(r) == <<r \div 2, 171>>

CARoot(r, active) ==
    [ID |-> r, SigningKeyID |-> HexString(KeyBytes(r)), Active |-> (r = active)]

\* structs.IndexedCARoots as held by the roots cache when root a is active.
IndexedCARoots(a) ==
    [ActiveRootID |-> a, Roots |-> [r \in RootIDs |-> CARoot(r, a)]]

NoCert == [ValidAfter |-> 0, ValidBefore |-> 0, ModifyIndex |-> 0, AuthorityKeyId |-> <<>>]

\* The IssuedCert the signing RPC replies with.
IssuedCert(va, vb, idx, r) ==
    [ValidAfter |-> va, ValidBefore |-> vb, ModifyIndex |-> idx, AuthorityKeyId |-> KeyBytes(r)]

\* &fetchState{}
NewFetchState == [authorityKeyID |-> <<>>, forceExpireAfter |-> ZeroTime]

NilResult == [IsNil |-> TRUE, Value |-> NoCert, Index |-> 0]
NoRet == [kind |-> "none", Value |-> NoCert, Index |-> 0]
NoEvent == [Full |-> FALSE, Err |-> FALSE, ActiveRootID |-> 0]

\* lib.RandomStagger(d): a duration drawn from 0 up to d.  The draws explored
\* are the StaggerSpread + 1 shortest and the longest.
RandomStagger(d) == {x \in 0..d : x <= StaggerSpread \/ x = d}

Min(a, b) == IF a < b THEN a ELSE b

\* time.Duration(float64(d) * 0.6) and * 0.9 for d >= 0: truncated.
SixtyPercent(d) == (d * 6) \div 10
NinetyPercent(d) == (d * 9) \div 10

\* Mutant: the test for now being past the hard renewal time is missing.
calculateSoftExpiryNoHardCheck(n, cert) ==
    LET certLifetime == cert.ValidBefore - cert.ValidAfter
        softRenewTime == cert.ValidAfter + SixtyPercent(certLifetime)
        hardRenewTime == cert.ValidAfter + NinetyPercent(certLifetime)
    IN IF certLifetime < TenMinutes THEN <<n, n>>
       ELSE IF n > softRenewTime THEN <<n, hardRenewTime>>
       ELSE <<softRenewTime, hardRenewTime>>

\* calculateSoftExpiry(now, cert) = <<min, max>>
calculateSoftExpiry(n, cert) ==
    LET certLifetime == cert.ValidBefore - cert.ValidAfter
        softRenewTime == cert.ValidAfter + SixtyPercent(certLifetime)
        hardRenewTime == cert.ValidAfter + NinetyPercent(certLifetime)
    IN IF certLifetime < TenMinutes THEN <<n, n>>
       ELSE IF n > hardRenewTime THEN <<n, n>>
       ELSE IF n > softRenewTime THEN <<n, hardRenewTime>>
       ELSE <<softRenewTime, hardRenewTime>>

\* activeRootHasKey(roots, currentSigningKeyID): the first active root decides.
RECURSIVE activeRootHasKeyFrom(_, _, _)
activeRootHasKeyFrom(roots, currentSigningKeyID, i) ==
    IF i > Len(roots.Roots) THEN FALSE
    ELSE IF roots.Roots[i].Active
         THEN roots.Roots[i].SigningKeyID = currentSigningKeyID
         ELSE activeRootHasKeyFrom(roots, currentSigningKeyID, i + 1)

\* Mutant: the active root's ID, not its SigningKeyID, is compared with the key.
activeRootHasKeyByID(roots, currentSigningKeyID) ==
    \E i \in DOMAIN roots.Roots :
        roots.Roots[i].Active /\ HexString(<<roots.Roots[i].ID>>) = currentSigningKeyID

activeRootHasKey(roots, currentSigningKeyID) ==
    activeRootHasKeyFrom(roots, currentSigningKeyID, 1)

\* ---------------------------------------------------------------- state
VARIABLES
    now,                  \* time.Now(), in ticks
    env,                  \* the run's configuration: slots in use, end of the clock, timeouts offered
    testSetCAChangeInitialJitter,
    activeRoot,           \* the cluster's active root, as the roots cache and the servers see it
    nextIndex,            \* the ModifyIndex the signing service gives its next cert
    rootWatchMu,          \* who holds c.rootWatchMu
    rootWatchSubscribers, \* the Fetch slots whose rootUpdateCh is in the map
    rootWatchCancel,      \* 0 = nil, else the watcher whose context it cancels
    wpc,                  \* per watcher task: none, start, run, fanoutLock, fanout, failed, exited
    ctxDone,              \* per watcher task: its context was cancelled
    ch,                   \* per watcher task: the 1-buffered cache.UpdateEvent channel
    oldRoots,             \* per watcher task: ActiveRootID of oldRoots, 0 = nil
    wroots,               \* per watcher task: ActiveRootID of the roots being fanned out
    pc,                   \* per Fetch slot: position of the call in flight
    lastResult,           \* per slot: what the cache holds and hands back in opts.LastResult
    state,                \* per slot: the *fetchState object (the cache and the call share it)
    timeout,              \* per slot: opts.Timeout
    callStart,            \* per slot: when the call in flight began
    iterStart,            \* per slot: when the current select was entered
    expiresAt,            \* per slot: the target expiry
    rootUpdateCh,         \* per slot: notifications buffered in rootUpdateCh (0 or 1)
    deferred,             \* per slot: defer c.fetchDone(rootUpdateCh) is pending
    ret,                  \* per slot: the (result, error) the call is returning
    wake,                 \* per slot: roots notifications handled by the call: none, same, diff
    staleAtCall,          \* per slot: the active root's key differed from the state's when the call began
    signCalls,            \* per slot: calls of c.RPC.RPC("ConnectCA.Sign") made by the call in flight
    joiner,               \* the retryJoiner r: addrs, maxAttempts, interval, retryTrigger
    jpc,                  \* position of retryJoinLAN / retryJoinWAN and its retryJoin
    attempt,              \* retryJoin's attempt counter
    joinCalls,            \* calls of r.join made so far
    joinOK,               \* r.join has returned without error
    sleepLeft,            \* what is left of time.After(joiner.interval) in the select
    jret,                 \* what retryJoin returned: none, nil, discover, exhausted
    retryJoinCh,          \* errors delivered on a.retryJoinCh
    softArgs,             \* arguments of a call of calculateSoftExpiry: now and the cert
    softRet               \* its result <<min, max>>, <<>> before the call

jvars == <<joiner, jpc, attempt, joinCalls, joinOK, sleepLeft, jret, retryJoinCh>>
xvars == <<softArgs, softRet>>
ovars == <<jvars, xvars>>
lvars == <<now, env, testSetCAChangeInitialJitter, activeRoot, nextIndex>>
tvars == <<lvars, ovars>>
wvars == <<wpc, ctxDone, ch, oldRoots, wroots>>
svars == <<rootWatchMu, rootWatchSubscribers, rootWatchCancel>>
fvars == <<pc, lastResult, state, timeout, callStart, iterStart, expiresAt,
           rootUpdateCh, deferred, ret, wake, staleAtCall, signCalls>>
vars == <<tvars, wvars, svars, fvars>>

Unlocked == <<"none", 0>>
FetchHolder(f) == <<"fetch", f>>
WatcherHolder(w) == <<"watcher", w>>

ActiveSigningKeyID == HexString(KeyBytes(activeRoot))

\* A cert issued under root 1 before the run began, and the state stored with it.
StartTimes == {52, 61}
InitLifetimes == {TenMinutes - 1, TenMinutes}
SignLifetimes == {TenMinutes}
TestJitters == {0, 1}

CachedResult(cert) == [IsNil |-> FALSE, Value |-> cert, Index |-> cert.ModifyIndex]
StateOf(cert) ==
    [authorityKeyID |-> HexString(cert.AuthorityKeyId), forceExpireAfter |-> ZeroTime]

InitCommon ==
    /\ activeRoot = 1
    /\ rootWatchMu = Unlocked
    /\ rootWatchSubscribers = {}
    /\ rootWatchCancel = 0
    /\ wpc = [w \in Watchers |-> "none"]
    /\ ctxDone = [w \in Watchers |-> FALSE]
    /\ ch = [w \in Watchers |-> NoEvent]
    /\ oldRoots = [w \in Watchers |-> 0]
    /\ wroots = [w \in Watchers |-> 0]
    /\ pc = [f \in Fetchers |-> "idle"]
    /\ timeout = [f \in Fetchers |-> 0]
    /\ callStart = [f \in Fetchers |-> 0]
    /\ iterStart = [f \in Fetchers |-> 0]
    /\ expiresAt = [f \in Fetchers |-> 0]
    /\ rootUpdateCh = [f \in Fetchers |-> 0]
    /\ deferred = [f \in Fetchers |-> FALSE]
    /\ ret = [f \in Fetchers |-> NoRet]
    /\ wake = [f \in Fetchers |-> "none"]
    /\ staleAtCall = [f \in Fetchers |-> FALSE]
    /\ signCalls = [f \in Fetchers |-> 0]

\* No retryJoiner runs.
JoinAtRest ==
    /\ joiner = [addrs |-> "empty", maxAttempts |-> 0, interval |-> 0, retryTrigger |-> "nil"]
    /\ jpc = "unused"
    /\ attempt = 0
    /\ joinCalls = 0
    /\ joinOK = FALSE
    /\ sleepLeft = 0
    /\ jret = "none"
    /\ retryJoinCh = 0

\* calculateSoftExpiry is called only from Fetch.
SoftAtRest ==
    /\ softArgs = [now |-> 0, cert |-> NoCert]
    /\ softRet = <<>>

\* One cache entry polled again and again, over every start time, cached
\* cert and jitter setting.
Init ==
    /\ InitCommon
    /\ JoinAtRest
    /\ SoftAtRest
    /\ now \in StartTimes
    /\ env = [slots |-> {1}, endOfTime |-> now + MaxElapsed, maxTimeout |-> MaxTimeout]
    /\ testSetCAChangeInitialJitter \in TestJitters
    /\ nextIndex = 2
    /\ \E r \in {NilResult} \cup {CachedResult(IssuedCert(0, l, 1, 1)) : l \in InitLifetimes} :
          /\ lastResult = [f \in Fetchers |-> IF f = 1 THEN r ELSE NilResult]
          /\ state = [f \in Fetchers |->
                         IF f = 1 /\ ~r.IsNil THEN StateOf(r.Value) ELSE NewFetchState]

\* Every entry in use at once, each with a live cached cert close to its
\* hard renewal time.
InitConc ==
    /\ InitCommon
    /\ JoinAtRest
    /\ SoftAtRest
    /\ now = 53
    /\ env = [slots |-> Fetchers, endOfTime |-> now + ConcElapsed, maxTimeout |-> 0]
    /\ testSetCAChangeInitialJitter = 1
    /\ nextIndex = MaxIndex
    /\ lastResult = [f \in Fetchers |-> CachedResult(IssuedCert(0, TenMinutes, 1, 1))]
    /\ state = [f \in Fetchers |-> StateOf(IssuedCert(0, TenMinutes, 1, 1))]

\* --------------------------------------------------------------- Fetch
\* A call's locals; they die when the call leaves its wait loop.
ClearLocals(f) ==
    /\ timeout' = [timeout EXCEPT ![f] = 0]
    /\ callStart' = [callStart EXCEPT ![f] = 0]
    /\ iterStart' = [iterStart EXCEPT ![f] = 0]
    /\ expiresAt' = [expiresAt EXCEPT ![f] = 0]
    /\ wake' = [wake EXCEPT ![f] = "none"]
    /\ staleAtCall' = [staleAtCall EXCEPT ![f] = FALSE]

\* What the cache framework holds after a Fetch returned r: a result without
\* error replaces the entry, an error leaves it.
CacheStore(old, r) ==
    IF r.kind # "error" THEN [IsNil |-> FALSE, Value |-> r.Value, Index |-> r.Index] ELSE old

\* return r: with defer c.fetchDone pending, fetchDone runs before the caller
\* resumes; without, the cache framework has the result at once.
ReturnResult(f, r, registered) ==
    IF registered
    THEN /\ ret' = [ret EXCEPT ![f] = r]
         /\ pc' = [pc EXCEPT ![f] = "fetchDone"]
         /\ lastResult' = lastResult
         /\ signCalls' = signCalls
    ELSE /\ ret' = ret
         /\ pc' = [pc EXCEPT ![f] = "idle"]
         /\ lastResult' = [lastResult EXCEPT ![f] = CacheStore(lastResult[f], r)]
         /\ signCalls' = [signCalls EXCEPT ![f] = 0]

Return(f, r, registered) == ClearLocals(f) /\ ReturnResult(f, r, registered)

\* return result, err with the empty result of generateNewLeaf
ErrorResult == [kind |-> "error", Value |-> NoCert, Index |-> 0]

\* return c.generateNewLeaf(reqReal, state), up to the signing RPC.  The
\* outcome "fail" is any of rootsFromCache failing, an empty TrustDomain,
\* GeneratePrivateKey failing and CreateCSR failing: each returns the empty
\* result and the error, with the state untouched.
Generate(f, outcome, registered) ==
    /\ ClearLocals(f)
    /\ IF outcome = "ok"
       THEN /\ pc' = [pc EXCEPT ![f] = "rpc"]
            /\ signCalls' = [signCalls EXCEPT ![f] = @ + 1]
            /\ UNCHANGED <<ret, lastResult>>
       ELSE ReturnResult(f, ErrorResult, registered)

\* Fetch is called.  Without a prior value it generates at once, on a fresh
\* fetchState; with one it goes on to fetchStart.
FetchCall(f, t, outcome) ==
    /\ f \in env.slots
    /\ pc[f] = "idle"
    /\ t \in 0..env.maxTimeout
    /\ IF lastResult[f].IsNil
       THEN /\ state' = [state EXCEPT ![f] = NewFetchState]
            /\ Generate(f, outcome, FALSE)
       ELSE /\ outcome = "ok"
            /\ pc' = [pc EXCEPT ![f] = "fetchStart"]
            /\ timeout' = [timeout EXCEPT ![f] = t]
            /\ callStart' = [callStart EXCEPT ![f] = now]
            /\ staleAtCall' = [staleAtCall EXCEPT ![f] =
                                  state[f].authorityKeyID # ActiveSigningKeyID]
            /\ UNCHANGED <<state, lastResult, ret, iterStart, expiresAt, wake, signCalls>>
    /\ UNCHANGED <<tvars, wvars, svars, rootUpdateCh, deferred>>

\* c.rootWatchMu.Lock() in fetchStart
FetchStartLock(f) ==
    /\ pc[f] = "fetchStart"
    /\ rootWatchMu = Unlocked
    /\ rootWatchMu' = FetchHolder(f)
    /\ pc' = [pc EXCEPT ![f] = "fetchStartLocked"]
    /\ UNCHANGED <<tvars, wvars, rootWatchSubscribers, rootWatchCancel, lastResult, state,
                   timeout, callStart, iterStart, expiresAt, rootUpdateCh, deferred, ret,
                   wake, staleAtCall, signCalls>>

\* Mutant: a watcher is started by every fetchStart.
NeedRootWatcherAlways == TRUE

\* ensureRootWatcher's test
NeedRootWatcher == rootWatchCancel = 0

FreeWatchers == {w \in Watchers : wpc[w] = "none"}

\* ensureRootWatcher: context.WithCancel, store cancel, go c.rootWatcher(ctx)
ensureRootWatcher ==
    IF NeedRootWatcher /\ FreeWatchers # {}
    THEN LET w == CHOOSE x \in FreeWatchers : \A y \in FreeWatchers : x <= y
         IN /\ rootWatchCancel' = w
            /\ wpc' = [wpc EXCEPT ![w] = "start"]
    ELSE UNCHANGED <<rootWatchCancel, wpc>>

\* Mutant: the persisted forceExpireAfter is not consulted.
ForceOverrideIgnored(e, force) == e

\* The force-expiry override of the target.
ForceOverride(e, force) == IF ~IsZero(force) /\ force < e THEN force ELSE e

\* Mutant: the check for a target already reached is missing.
AlreadyExpiredNever(e, n) == FALSE

\* expiresAt == now || expiresAt.Before(now)
AlreadyExpired(e, n) == e = n \/ e < n

\* The body of fetchStart and its Unlock, then Fetch up to its first
\* suspension: the target expiry, and either generateNewLeaf at once or the
\* entry of the wait loop.
FetchStartBody(f, outcome) ==
    /\ pc[f] = "fetchStartLocked"
    /\ rootWatchMu = FetchHolder(f)
    /\ ensureRootWatcher
    /\ rootWatchSubscribers' = rootWatchSubscribers \cup {f}
    /\ rootWatchMu' = Unlocked
    /\ deferred' = [deferred EXCEPT ![f] = TRUE]
    /\ LET mm == calculateSoftExpiry(now, lastResult[f].Value)
       IN \E d \in RandomStagger(mm[2] - mm[1]) :
            LET e == ForceOverride(mm[1] + d, state[f].forceExpireAfter)
            IN IF AlreadyExpired(e, now)
               THEN Generate(f, outcome, TRUE)
               ELSE /\ outcome = "ok"
                    /\ pc' = [pc EXCEPT ![f] = "wait"]
                    /\ expiresAt' = [expiresAt EXCEPT ![f] = e]
                    /\ iterStart' = [iterStart EXCEPT ![f] = now]
                    /\ UNCHANGED <<timeout, callStart, wake, staleAtCall, ret, lastResult,
                                   signCalls>>
    /\ UNCHANGED <<tvars, ctxDone, ch, oldRoots, wroots, state, rootUpdateCh>>

\* The result pre-seeded before the loop: the existing value, its index, the state.
Preseeded(f, kind) ==
    [kind |-> kind, Value |-> lastResult[f].Value, Index |-> lastResult[f].Value.ModifyIndex]

\* The instant at which the select's time.After(opts.Timeout) fires.
TimeoutAt(f) == iterStart[f] + timeout[f]

\* case <-time.After(opts.Timeout)
FetchTimeout(f) ==
    /\ pc[f] = "wait"
    /\ now >= TimeoutAt(f)
    /\ Return(f, Preseeded(f, "timeout"), TRUE)
    /\ UNCHANGED <<tvars, wvars, svars, state, rootUpdateCh, deferred>>

\* case <-time.After(expiresAt.Sub(time.Now()))
FetchExpire(f, outcome) ==
    /\ pc[f] = "wait"
    /\ now >= expiresAt[f]
    /\ Generate(f, outcome, TRUE)
    /\ UNCHANGED <<tvars, wvars, svars, state, rootUpdateCh, deferred>>

\* Mutant: the test override is not applied.
JitterWithoutOverride == caChangeInitialJitter

\* jitter := caChangeInitialJitter, unless the test override is positive
Jitter ==
    IF testSetCAChangeInitialJitter > 0 THEN testSetCAChangeInitialJitter
    ELSE caChangeInitialJitter

\* What the notifications handled so far told the call: "diff" once one came
\* while the active root's signing key was not the state's.
WakeAfter(f) ==
    IF state[f].authorityKeyID # ActiveSigningKeyID THEN "diff"
    ELSE IF wake[f] = "diff" THEN "diff" ELSE "same"

\* case <-rootUpdateCh, when rootsFromCache fails
FetchRootUpdateErr(f) ==
    /\ pc[f] = "wait"
    /\ rootUpdateCh[f] = 1
    /\ rootUpdateCh' = [rootUpdateCh EXCEPT ![f] = 0]
    /\ Return(f, Preseeded(f, "error"), TRUE)
    /\ UNCHANGED <<tvars, wvars, svars, state, deferred>>

\* case <-rootUpdateCh, with the roots read from the cache
FetchRootUpdate(f) ==
    /\ pc[f] = "wait"
    /\ rootUpdateCh[f] = 1
    /\ rootUpdateCh' = [rootUpdateCh EXCEPT ![f] = 0]
    /\ wake' = [wake EXCEPT ![f] = WakeAfter(f)]
    /\ iterStart' = [iterStart EXCEPT ![f] = now]
    /\ IF activeRootHasKey(IndexedCARoots(activeRoot), state[f].authorityKeyID)
       THEN UNCHANGED <<state, expiresAt>>
       ELSE \E delay \in RandomStagger(Jitter) :
              LET force == now + delay
              IN /\ state' = [state EXCEPT ![f].forceExpireAfter = force]
                 /\ expiresAt' = [expiresAt EXCEPT ![f] = Min(force, expiresAt[f])]
    /\ UNCHANGED <<tvars, wvars, svars, pc, lastResult, timeout, callStart, deferred,
                   ret, staleAtCall, signCalls>>

\* Mutant: an error of the signing RPC is answered by calling it again.
GenSignErrorRetries(f) ==
    /\ pc[f] = "rpc"
    /\ signCalls[f] <= 1
    /\ signCalls' = [signCalls EXCEPT ![f] = @ + 1]
    /\ UNCHANGED <<tvars, wvars, svars, pc, lastResult, state, timeout, callStart, iterStart,
                   expiresAt, rootUpdateCh, deferred, ret, wake, staleAtCall>>

\* c.RPC.RPC("ConnectCA.Sign", ...) returns an error
GenSignError(f) ==
    /\ pc[f] = "rpc"
    /\ Return(f, ErrorResult, deferred[f])
    /\ UNCHANGED <<tvars, wvars, svars, state, rootUpdateCh, deferred>>

\* Mutant: authorityKeyID is not taken from the new cert.
StateAfterSignKeepsKey(s, reply, parsed) == [s EXCEPT !.forceExpireAfter = ZeroTime]

\* The state after generateNewLeaf's writes to it, given whether ParseCert succeeded.
StateAfterSign(s, reply, parsed) ==
    IF parsed
    THEN [authorityKeyID |-> HexString(reply.AuthorityKeyId), forceExpireAfter |-> ZeroTime]
    ELSE [s EXCEPT !.forceExpireAfter = ZeroTime]

\* The signing RPC replies; the rest of generateNewLeaf runs without suspending.
GenSignReply(f, life, parsed) ==
    /\ pc[f] = "rpc"
    /\ life \in SignLifetimes
    /\ nextIndex <= MaxIndex
    /\ LET reply == IssuedCert(now, now + life, nextIndex, activeRoot)
       IN /\ state' = [state EXCEPT ![f] = StateAfterSign(state[f], reply, parsed)]
          /\ IF parsed
             THEN Return(f, [kind |-> "generated", Value |-> reply,
                             Index |-> reply.ModifyIndex], deferred[f])
             ELSE Return(f, ErrorResult, deferred[f])
    /\ nextIndex' = nextIndex + 1
    /\ UNCHANGED <<now, env, testSetCAChangeInitialJitter, activeRoot, ovars, wvars, svars,
                   rootUpdateCh, deferred>>

\* c.rootWatchMu.Lock() in the deferred fetchDone
FetchDoneLock(f) ==
    /\ pc[f] = "fetchDone"
    /\ rootWatchMu = Unlocked
    /\ rootWatchMu' = FetchHolder(f)
    /\ pc' = [pc EXCEPT ![f] = "fetchDoneLocked"]
    /\ UNCHANGED <<tvars, wvars, rootWatchSubscribers, rootWatchCancel, lastResult, state,
                   timeout, callStart, iterStart, expiresAt, rootUpdateCh, deferred, ret,
                   wake, staleAtCall, signCalls>>

\* Mutant: fetchDone leaves the channel in the map.
DeleteSubscriberSkipped(subs, f) == subs

\* delete(c.rootWatchSubscribers, rootUpdateCh)
DeleteSubscriber(subs, f) == subs \ {f}

\* The body of fetchDone and its Unlock; Fetch then returns to the cache
\* framework.
FetchDoneBody(f) ==
    /\ pc[f] = "fetchDoneLocked"
    /\ rootWatchMu = FetchHolder(f)
    /\ rootWatchSubscribers' = DeleteSubscriber(rootWatchSubscribers, f)
    /\ IF rootWatchSubscribers' = {} /\ rootWatchCancel # 0
       THEN ctxDone' = [ctxDone EXCEPT ![rootWatchCancel] = TRUE]
       ELSE ctxDone' = ctxDone
    /\ rootWatchMu' = Unlocked
    /\ rootUpdateCh' = [rootUpdateCh EXCEPT ![f] = 0]
    /\ deferred' = [deferred EXCEPT ![f] = FALSE]
    /\ lastResult' = [lastResult EXCEPT ![f] = CacheStore(lastResult[f], ret[f])]
    /\ ret' = [ret EXCEPT ![f] = NoRet]
    /\ pc' = [pc EXCEPT ![f] = "idle"]
    /\ signCalls' = [signCalls EXCEPT ![f] = 0]
    /\ UNCHANGED <<tvars, wpc, ch, oldRoots, wroots, rootWatchCancel, state,
                   timeout, callStart, iterStart, expiresAt, wake, staleAtCall>>

\* -------------------------------------------------------- roots watcher
\* c.Cache.Notify(ctx, ConnectCARootName, ..., ch) at the start of rootWatcher
WatcherNotify(w, ok) ==
    /\ wpc[w] = "start"
    /\ wpc' = [wpc EXCEPT ![w] = IF ok THEN "run" ELSE "failed"]
    /\ UNCHANGED <<tvars, ctxDone, ch, oldRoots, wroots, svars, fvars>>

Subscribed(w) == wpc[w] \in {"run", "fanoutLock", "fanout"}

\* No Fetch is in the middle of a computation: each is idle or suspended in
\* its select or in the signing RPC.  The environment acts at such moments.
FetchesSuspended == \A f \in Fetchers : pc[f] \in {"idle", "wait", "rpc"}

\* The roots cache delivers an update event (the roots, or an error) to a
\* subscribed watcher whose context is live.
CacheUpdate(w, err) ==
    /\ FetchesSuspended
    /\ Subscribed(w)
    /\ ~ctxDone[w]
    /\ ~ch[w].Full
    /\ ch' = [ch EXCEPT ![w] =
                [Full |-> TRUE, Err |-> err, ActiveRootID |-> IF err THEN 0 ELSE activeRoot]]
    /\ UNCHANGED <<tvars, wpc, ctxDone, oldRoots, wroots, svars, fvars>>

\* case <-ctx.Done()
WatcherCtxDone(w) ==
    /\ wpc[w] = "run"
    /\ ctxDone[w]
    /\ wpc' = [wpc EXCEPT ![w] = "exited"]
    /\ ch' = [ch EXCEPT ![w] = NoEvent]
    /\ oldRoots' = [oldRoots EXCEPT ![w] = 0]
    /\ UNCHANGED <<tvars, ctxDone, wroots, svars, fvars>>

\* Mutant: the comparison with oldRoots is missing.
ShouldFanOutAnyRoots(e, old) == ~e.Err

\* The event is one to fan out: no error, and the active root is not oldRoots'.
ShouldFanOut(e, old) == ~e.Err /\ ~(old # 0 /\ old = e.ActiveRootID)

\* case e := <-ch
WatcherRecv(w) ==
    /\ wpc[w] = "run"
    /\ ch[w].Full
    /\ ch' = [ch EXCEPT ![w] = NoEvent]
    /\ IF ShouldFanOut(ch[w], oldRoots[w])
       THEN /\ wpc' = [wpc EXCEPT ![w] = "fanoutLock"]
            /\ wroots' = [wroots EXCEPT ![w] = ch[w].ActiveRootID]
       ELSE UNCHANGED <<wpc, wroots>>
    /\ UNCHANGED <<tvars, ctxDone, oldRoots, svars, fvars>>

\* c.rootWatchMu.Lock() before the fan-out
WatcherLock(w) ==
    /\ wpc[w] = "fanoutLock"
    /\ rootWatchMu = Unlocked
    /\ rootWatchMu' = WatcherHolder(w)
    /\ wpc' = [wpc EXCEPT ![w] = "fanout"]
    /\ UNCHANGED <<tvars, ctxDone, ch, oldRoots, wroots, rootWatchSubscribers,
                   rootWatchCancel, fvars>>

\* Mutant: the send has no default case and queues behind what is pending.
NonBlockingSendQueues(buffered) == buffered + 1

\* select { case ch <- struct{}{}: default: } on a 1-buffered channel
NonBlockingSend(buffered) == IF buffered = 0 THEN 1 ELSE buffered

\* the fan-out to every subscriber, Unlock, oldRoots = roots
WatcherFanout(w) ==
    /\ wpc[w] = "fanout"
    /\ rootWatchMu = WatcherHolder(w)
    /\ rootUpdateCh' = [f \in Fetchers |->
            IF f \in rootWatchSubscribers THEN NonBlockingSend(rootUpdateCh[f])
            ELSE rootUpdateCh[f]]
    /\ rootWatchMu' = Unlocked
    /\ oldRoots' = [oldRoots EXCEPT ![w] = wroots[w]]
    /\ wroots' = [wroots EXCEPT ![w] = 0]
    /\ wpc' = [wpc EXCEPT ![w] = "run"]
    /\ UNCHANGED <<tvars, ctxDone, ch, rootWatchSubscribers, rootWatchCancel, pc,
                   lastResult, state, timeout, callStart, iterStart, expiresAt, deferred,
                   ret, wake, staleAtCall, signCalls>>

\* ------------------------------------------------------- environment
\* The cluster's active root changes, to a root that was not active before
\* (roots are numbered in the order in which they become active).
RootChange(r) ==
    /\ FetchesSuspended
    /\ r \in RootIDs
    /\ r > activeRoot
    /\ activeRoot' = r
    /\ UNCHANGED <<now, env, testSetCAChangeInitialJitter, nextIndex, ovars, wvars, svars, fvars>>

\* A select of Fetch f has a case that is ready.
SelectReady(f) ==
    pc[f] = "wait" /\ (now >= TimeoutAt(f) \/ now >= expiresAt[f] \/ rootUpdateCh[f] = 1)

\* A watcher task has a step to take: a case of its select is ready, or it
\* is between the receipt of an event and the end of the fan-out.
WatcherReady(w) ==
    \/ wpc[w] \in {"start", "fanoutLock", "fanout"}
    \/ wpc[w] = "run" /\ (ctxDone[w] \/ ch[w].Full)

\* Ten seconds pass: every task is suspended with nothing ready.
Tick ==
    /\ now < env.endOfTime
    /\ rootWatchMu = Unlocked
    /\ FetchesSuspended
    /\ \A f \in Fetchers : ~SelectReady(f)
    /\ \A w \in Watchers : ~WatcherReady(w)
    /\ now' = now + 1
    /\ UNCHANGED <<env, testSetCAChangeInitialJitter, activeRoot, nextIndex, ovars, wvars,
                   svars,
                   fvars>>

Next ==
    \/ \E f \in Fetchers, t \in 0..MaxTimeout, o \in {"ok", "fail"} : FetchCall(f, t, o)
    \/ \E f \in Fetchers : FetchStartLock(f)
    \/ \E f \in Fetchers, o \in {"ok", "fail"} : FetchStartBody(f, o)
    \/ \E f \in Fetchers : FetchTimeout(f)
    \/ \E f \in Fetchers, o \in {"ok", "fail"} : FetchExpire(f, o)
    \/ \E f \in Fetchers : FetchRootUpdateErr(f)
    \/ \E f \in Fetchers : FetchRootUpdate(f)
    \/ \E f \in Fetchers : GenSignError(f)
    \/ \E f \in Fetchers, l \in SignLifetimes, p \in BOOLEAN : GenSignReply(f, l, p)
    \/ \E f \in Fetchers : FetchDoneLock(f)
    \/ \E f \in Fetchers : FetchDoneBody(f)
    \/ \E w \in Watchers, ok \in BOOLEAN : WatcherNotify(w, ok)
    \/ \E w \in Watchers, e \in BOOLEAN : CacheUpdate(w, e)
    \/ \E w \in Watchers : WatcherCtxDone(w)
    \/ \E w \in Watchers : WatcherRecv(w)
    \/ \E w \in Watchers : WatcherLock(w)
    \/ \E w \in Watchers : WatcherFanout(w)
    \/ \E r \in RootIDs : RootChange(r)
    \/ Tick

Spec == Init /\ [][Next]_vars
SpecConc == InitConc /\ [][Next]_vars

\* ----------------------------------------------------------- retryJoin
\* The leaf-cert cache type with no Fetch in flight and nothing cached.
LeafAtRest ==
    /\ InitCommon
    /\ now = 1
    /\ env = [slots |-> {}, endOfTime |-> 1, maxTimeout |-> 0]
    /\ testSetCAChangeInitialJitter = 0
    /\ nextIndex = 1
    /\ lastResult = [f \in Fetchers |-> NilResult]
    /\ state = [f \in Fetchers |-> NewFetchState]

\* The retryJoiner built by retryJoinLAN / retryJoinWAN from the agent's
\* config.  addrs is empty, or holds a static address (and so never resolves
\* to nothing), or holds only provider= configurations.
Joiners ==
    [addrs : {"empty", "static", "provider"},
     maxAttempts : -1..MaxAttempts,
     interval : 1..MaxInterval,
     retryTrigger : {"nil", "chan"}]

InitJoin ==
    /\ LeafAtRest
    /\ SoftAtRest
    /\ joiner \in Joiners
    /\ jpc = "call"
    /\ attempt = 0
    /\ joinCalls = 0
    /\ joinOK = FALSE
    /\ sleepLeft = 0
    /\ jret = "none"
    /\ retryJoinCh = 0

\* return from retryJoin with the given result
JoinReturn(result) ==
    /\ jret' = result
    /\ jpc' = "returned"

\* retryJoin up to the loop: the empty-addrs return and discover.New
JoinStart(discoOK) ==
    /\ jpc = "call"
    /\ IF joiner.addrs = "empty" THEN JoinReturn("nil")
       ELSE IF ~discoOK THEN JoinReturn("discover")
       ELSE jpc' = "loop" /\ jret' = jret
    /\ UNCHANGED <<joiner, attempt, joinCalls, joinOK, sleepLeft, retryJoinCh, xvars, lvars,
                   wvars, svars, fvars>>

\* Mutant: the sign of maxAttempts is not looked at.
ExhaustedWhateverSign(a, maxAttempts) == a > maxAttempts

\* joiner.maxAttempts > 0 && attempt > joiner.maxAttempts
Exhausted(a, maxAttempts) == maxAttempts > 0 /\ a > maxAttempts

\* One pass of the loop body: resolve the addresses, call join if there are
\* any, count the attempt, give up or go to sleep.  discovered: a provider
\* configuration yielded servers; joined: r.join returned no error.
JoinAttempt(discovered, joined) ==
    /\ jpc = "loop"
    /\ attempt < MaxJoinLoops
    /\ LET some == joiner.addrs = "static" \/ discovered
       IN /\ joinCalls' = IF some THEN joinCalls + 1 ELSE joinCalls
          /\ IF some /\ joined
             THEN /\ joinOK' = TRUE
                  /\ JoinReturn("nil")
                  /\ UNCHANGED <<attempt, sleepLeft>>
             ELSE /\ joinOK' = joinOK
                  /\ attempt' = attempt + 1
                  /\ IF Exhausted(attempt + 1, joiner.maxAttempts)
                     THEN JoinReturn("exhausted") /\ sleepLeft' = sleepLeft
                     ELSE /\ jpc' = "sleep"
                          /\ sleepLeft' = joiner.interval
                          /\ jret' = jret
    /\ UNCHANGED <<joiner, retryJoinCh, xvars, lvars, wvars, svars, fvars>>

\* Time passes for the sleeping joiner.
JoinTick ==
    /\ jpc = "sleep"
    /\ sleepLeft > 0
    /\ sleepLeft' = sleepLeft - 1
    /\ UNCHANGED <<joiner, jpc, attempt, joinCalls, joinOK, jret, retryJoinCh, xvars, lvars,
                   wvars, svars, fvars>>

\* case <-time.After(joiner.interval)
JoinTimer ==
    /\ jpc = "sleep"
    /\ sleepLeft = 0
    /\ jpc' = "loop"
    /\ UNCHANGED <<joiner, attempt, joinCalls, joinOK, sleepLeft, jret, retryJoinCh, xvars,
                   lvars, wvars, svars, fvars>>

\* Mutant: the receive is taken for ready whatever the channel.
TriggerReceivableAlways(trigger) == TRUE

\* A receive from joiner.retryTrigger can complete: never on a nil channel.
TriggerReceivable(trigger) == trigger # "nil"

\* case <-joiner.retryTrigger, a struct being sent on it
JoinTrigger ==
    /\ jpc = "sleep"
    /\ TriggerReceivable(joiner.retryTrigger)
    /\ jpc' = "loop"
    /\ UNCHANGED <<joiner, attempt, joinCalls, joinOK, sleepLeft, jret, retryJoinCh, xvars,
                   lvars, wvars, svars, fvars>>

\* retryJoinLAN / retryJoinWAN after r.retryJoin() returned
JoinFinish ==
    /\ jpc = "returned"
    /\ retryJoinCh' = IF jret # "nil" THEN retryJoinCh + 1 ELSE retryJoinCh
    /\ jpc' = "done"
    /\ UNCHANGED <<joiner, attempt, joinCalls, joinOK, sleepLeft, jret, xvars, lvars, wvars,
                   svars, fvars>>

NextJoin ==
    \/ \E d \in BOOLEAN : JoinStart(d)
    \/ \E d \in BOOLEAN, j \in BOOLEAN : JoinAttempt(d, j)
    \/ JoinTick
    \/ JoinTimer
    \/ JoinTrigger
    \/ JoinFinish

SpecJoin == InitJoin /\ [][NextJoin]_vars

\* ------------------------------------------- calculateSoftExpiry alone
\* Every call of calculateSoftExpiry with times up to TenMinutes + MaxSoftTime.
SoftTimes == 0..(TenMinutes + MaxSoftTime)

InitSoft ==
    /\ LeafAtRest
    /\ JoinAtRest
    /\ softArgs \in [now : SoftTimes,
                     cert : {IssuedCert(va, vb, 1, 1) : va \in 0..MaxSoftTime, vb \in SoftTimes}]
    /\ softRet = <<>>

SoftCall ==
    /\ softRet = <<>>
    /\ softRet' = calculateSoftExpiry(softArgs.now, softArgs.cert)
    /\ UNCHANGED <<softArgs, jvars, lvars, wvars, svars, fvars>>

NextSoft == SoftCall

SpecSoft == InitSoft /\ [][NextSoft]_vars

\* ---------------------------------------------------------------- claims
\* A watcher task that was started and has not exited.
Running(w) == wpc[w] \in {"start", "run", "fanoutLock", "fanout"}

\* A running watcher task whose cancellation was not requested.
Live(w) == Running(w) /\ ~ctxDone[w]

SubscribeFailed == \E w \in Watchers : wpc[w] = "failed"

\* C1: while rootWatchMu is free, a roots watcher is live exactly when the
\* subscriber set is non-empty; in particular a Fetch that registers after
\* the set drained has a live watcher.  Stated for the runs in which the
\* watcher's subscription did not fail (C3 is about those).
C1_WatcherIffSubscribers ==
    (rootWatchMu = Unlocked /\ ~SubscribeFailed) =>
        ((\E w \in Watchers : Live(w)) <=> rootWatchSubscribers # {})

\* C2: at every instant at most one rootWatcher task has started and not exited.
C2_AtMostOneWatcher == Cardinality({w \in Watchers : Running(w)}) <= 1

\* C2 witness: two Fetch calls are registered at once, served by a running watcher.
C2_Witness ==
    Cardinality(rootWatchSubscribers) >= 2 /\ (\E w \in Watchers : Running(w))

\* C3: once a watcher's subscription failed and it exited, a fetchStart that
\* finds no watcher running starts a new one.
C3_RetryAfterSubscribeFailure ==
    [][\A f \in Fetchers :
         (/\ pc[f] = "fetchStartLocked"
          /\ pc'[f] # "fetchStartLocked"
          /\ SubscribeFailed
          /\ \A w \in Watchers : ~Running(w))
         => (\E w \in Watchers : ~Running(w) /\ wpc'[w] = "start")]_vars

\* C4: a Fetch that returns on caller timeout does so no later than
\* opts.Timeout after the call began.
C4_TimeoutFromCallStart ==
    [][\A f \in Fetchers :
         (pc[f] = "wait" /\ pc'[f] = "fetchDone" /\ ret'[f].kind = "timeout")
         => now <= callStart[f] + timeout[f]]_vars

Returning(f) == pc[f] \in {"fetchDone", "fetchDoneLocked"}

\* C5: a Fetch that returns a cert without error (the existing one on caller
\* timeout, or a new one) returns one whose ValidBefore is not in the past.
C5_NoExpiredCertReturned ==
    \A f \in Fetchers :
        (Returning(f) /\ ret[f].kind \in {"timeout", "generated"})
        => ret[f].Value.ValidBefore >= now

\* C5 witness: a caller-timeout return of the existing cert, after a root
\* change set forceExpireAfter.
C5_Witness ==
    \E f \in Fetchers :
        /\ Returning(f)
        /\ ret[f].kind = "timeout"
        /\ ~IsZero(state[f].forceExpireAfter)

\* C6: a non-zero forceExpireAfter goes back to zero only in a step in which
\* generateNewLeaf succeeds.
C6_ForceClearedOnlyBySuccess ==
    [][\A f \in Fetchers :
         (~IsZero(state[f].forceExpireAfter) /\ IsZero(state'[f].forceExpireAfter))
         => (pc[f] = "rpc" /\ ret'[f].kind = "generated")]_vars

\* The cert most recently returned for the entry, or being returned.
LatestCert(f) == IF ret[f].kind = "generated" THEN ret[f].Value ELSE lastResult[f].Value

\* C7: the authorityKeyID stored with an entry is the signing authority's
\* key ID of the cert most recently returned for it.
C7_AuthorityKeyMatchesCert ==
    \A f \in Fetchers :
        ~lastResult[f].IsNil
        => state[f].authorityKeyID = HexString(LatestCert(f).AuthorityKeyId)

\* C7 witness: an entry at rest holds a cert generated under a rotated root.
C7_Witness ==
    \E f \in Fetchers :
        /\ pc[f] = "idle"
        /\ ~lastResult[f].IsNil
        /\ lastResult[f].Value.ModifyIndex >= 2
        /\ lastResult[f].Value.AuthorityKeyId # KeyBytes(1)

\* C8: a Fetch that began after the active root changed to another signing
\* key, and returns the existing cert without error, returns a state whose
\* forceExpireAfter is set and at most caChangeInitialJitter after the change
\* was handled (which is no later than the return).  Stated for the histories
\* in which the subscriber set drained and the watcher was torn down before
\* the call, its subscription not having failed.
C8_ForceExpireAfterRootChange ==
    [][\A f \in Fetchers :
         (/\ pc[f] = "wait"
          /\ ret'[f].kind = "timeout"
          /\ staleAtCall[f]
          /\ state[f].authorityKeyID # ActiveSigningKeyID
          /\ ~SubscribeFailed
          /\ \A w \in Watchers : ~Live(w))
         => (/\ ~IsZero(state'[f].forceExpireAfter)
             /\ state'[f].forceExpireAfter <= now + caChangeInitialJitter)]_vars

\* C9: a Fetch that waits with a forceExpireAfter T persisted by an earlier
\* call entered the loop because T was still ahead, has a target no later
\* than T, and is never found waiting past its target.
C9_PersistedDeadlineBoundsTarget ==
    \A f \in Fetchers :
        (pc[f] = "wait" /\ wake[f] # "diff" /\ ~IsZero(state[f].forceExpireAfter))
        => (/\ callStart[f] < expiresAt[f]
            /\ expiresAt[f] <= state[f].forceExpireAfter
            /\ now <= expiresAt[f])

\* C9 witness: the next Fetch has reached the persisted deadline and is about
\* to renew.
C9_Witness ==
    \E f \in Fetchers :
        /\ pc[f] = "wait"
        /\ wake[f] = "none"
        /\ ~IsZero(state[f].forceExpireAfter)
        /\ expiresAt[f] = state[f].forceExpireAfter
        /\ now = expiresAt[f]

\* C10: a waiting Fetch that has handled no notification under a changed
\* signing key keeps its target and its state, and on caller timeout returns
\* the prior value and index with that state; the entry is then as before.
C10_SpuriousWakeChangesNothing ==
    [][\A f \in Fetchers :
         /\ (pc[f] = "wait" /\ pc'[f] = "wait" /\ wake'[f] # "diff")
            => (state'[f] = state[f] /\ expiresAt'[f] = expiresAt[f])
         /\ (pc[f] = "wait" /\ wake[f] # "diff" /\ ret'[f].kind = "timeout")
            => (/\ state'[f] = state[f]
                /\ ret'[f].Value = lastResult[f].Value
                /\ ret'[f].Index = lastResult[f].Index)
         /\ (Returning(f) /\ ret[f].kind = "timeout")
            => (/\ state'[f] = state[f]
                /\ (pc'[f] = "idle" => lastResult'[f] = lastResult[f]))]_vars

\* C10 witness: a Fetch handled a notification under an unchanged signing key
\* and its caller timeout is due.
C10_Witness ==
    \E f \in Fetchers :
        pc[f] = "wait" /\ wake[f] = "same" /\ now >= TimeoutAt(f)

\* A Fetch between its registration by fetchStart and the end of its fetchDone.
Registered(f) ==
    \/ pc[f] \in {"wait", "fetchDone"}
    \/ pc[f] = "rpc" /\ deferred[f]
    \/ pc[f] = "fetchDoneLocked"

\* C11: a Fetch's channel is in the subscriber set exactly from its
\* registration until its fetchDone has run, whatever the exit path; once
\* every Fetch that registered has returned, the set is empty and the
\* watcher's cancellation has been requested.
C11_SubscribedExactlyWhileInFlight ==
    /\ \A f \in Fetchers : f \in rootWatchSubscribers <=> Registered(f)
    /\ ((\A f \in Fetchers : pc[f] = "idle") /\ rootWatchCancel # 0)
       => (rootWatchSubscribers = {} /\ ctxDone[rootWatchCancel])

\* C11 witness: every entry has a cert newer than its first one, so Fetch
\* calls registered and returned, and all calls are over.
C11_Witness ==
    /\ \A f \in Fetchers : pc[f] = "idle"
    /\ rootWatchCancel # 0
    /\ ctxDone[rootWatchCancel]
    /\ \E f \in Fetchers : lastResult[f].Value.ModifyIndex >= 2

\* C12: the fetchState the cache holds for an entry is not modified by a
\* running Fetch: it changes only in the step in which a Fetch returns a
\* result without error, carrying the new state.
C12_StateNotSharedWithCache ==
    [][\A f \in Fetchers :
         (~lastResult[f].IsNil /\ state'[f] # state[f])
         => (pc'[f] = "fetchDone" /\ ret'[f].kind \in {"timeout", "generated"})]_vars

\* C13: a retryJoiner with static addrs and maxAttempts = N > 0 whose join
\* fails every time has called join exactly N times when retryJoin returns
\* the retry-exhausted error.
C13_MaxAttemptsJoinCalls ==
    (jret = "exhausted" /\ joiner.addrs = "static")
    => joinCalls = joiner.maxAttempts

\* What C14 says of a nil return, of the join calls and of retryJoinCh.
JoinNilAndDelivery ==
    /\ jret = "nil" => ((joiner.addrs = "empty" /\ joinCalls = 0) \/ joinOK)
    /\ joinOK => jret = "nil"
    /\ (joiner.addrs = "empty" /\ jpc # "call") => (jret = "nil" /\ joinCalls = 0)
    /\ (jpc = "done" /\ jret # "nil") => retryJoinCh = 1
    /\ retryJoinCh > 0 => (jpc = "done" /\ jret \notin {"none", "nil"})

\* C14 as stated: retryJoin returns nil exactly when addrs is empty or at the
\* first join call without error, and calls join no more after returning; it
\* returns an error only when maxAttempts > 0 and the attempts are used up,
\* never with maxAttempts <= 0; the error is delivered on retryJoinCh.
C14_Original ==
    [][/\ JoinNilAndDelivery'
       /\ jret # "none" => joinCalls' = joinCalls
       /\ jret' \notin {"none", "nil"}
          => (joiner.maxAttempts > 0 /\ attempt' > joiner.maxAttempts)]_vars

\* C14 amended: as C14, except that retryJoin also returns an error, before
\* any join call, when discover.New fails; the retry-exhausted error is
\* returned only when maxAttempts > 0 and the attempts are used up.
C14_Amended ==
    [][/\ JoinNilAndDelivery'
       /\ jret # "none" => joinCalls' = joinCalls
       /\ jret' = "exhausted"
          => (joiner.maxAttempts > 0 /\ attempt' > joiner.maxAttempts)
       /\ jret' = "discover" => (joinCalls' = 0 /\ attempt' = 0)]_vars

\* C14 witness: the attempts were used up and the error is on retryJoinCh.
C14_Witness ==
    jpc = "done" /\ jret = "exhausted" /\ retryJoinCh = 1 /\ joinCalls > 0

\* C15: a sleeping retryJoiner with a non-nil retryTrigger can be woken by a
\* struct sent on it and then starts the next attempt at once; with a nil
\* retryTrigger it leaves the sleep only when interval has run out.  A wake
\* of either kind leaves the attempt count as it is, every pass that goes to
\* sleep has counted one attempt, and no sleep begins with the attempts of a
\* positive maxAttempts used up.
C15_TriggerWakesSleeper ==
    [][/\ (jpc = "sleep" /\ joiner.retryTrigger = "chan") => ENABLED JoinTrigger
       /\ (jpc = "sleep" /\ jpc' # "sleep")
          => (/\ jpc' = "loop"
              /\ attempt' = attempt
              /\ joinCalls' = joinCalls
              /\ sleepLeft > 0 => joiner.retryTrigger # "nil")
       /\ (jpc = "loop" /\ jpc' = "sleep")
          => (/\ attempt' = attempt + 1
              /\ sleepLeft' = joiner.interval
              /\ joiner.maxAttempts > 0 => attempt' <= joiner.maxAttempts)]_vars

\* C15 witness: the last retry was triggered with the whole interval still to
\* run, and it used up the attempts.
C15_Witness ==
    /\ jret = "exhausted"
    /\ joiner.retryTrigger = "chan"
    /\ sleepLeft = joiner.interval

\* The watcher takes an event from ch in this step.
Receives(w) == wpc[w] = "run" /\ ch[w].Full /\ ~ch'[w].Full /\ wpc'[w] # "exited"

\* The event at the head of ch carries an error or the ActiveRootID of oldRoots.
Ignorable(w) ==
    ch[w].Err \/ (oldRoots[w] # 0 /\ oldRoots[w] = ch[w].ActiveRootID)

\* C16: an event that is free of error and whose ActiveRootID is not that of
\* oldRoots (or oldRoots is unset) goes to the fan-out, after which every
\* channel in the subscriber set at the time of the send holds a pending
\* notification and oldRoots is the event's roots; an event with an error or
\* with oldRoots' ActiveRootID changes no subscriber channel and not oldRoots.
C16_FanOutToAllSubscribers ==
    [][\A w \in Watchers :
         /\ (Receives(w) /\ ~Ignorable(w))
            => (wpc'[w] = "fanoutLock" /\ wroots'[w] = ch[w].ActiveRootID)
         /\ (Receives(w) /\ Ignorable(w))
            => (/\ wpc'[w] = "run"
                /\ rootUpdateCh' = rootUpdateCh
                /\ oldRoots' = oldRoots)
         /\ (wpc[w] = "fanout" /\ wpc'[w] # "fanout")
            => (/\ \A f \in rootWatchSubscribers : rootUpdateCh'[f] = 1
                /\ \A f \in Fetchers \ rootWatchSubscribers :
                      rootUpdateCh'[f] = rootUpdateCh[f]
                /\ oldRoots'[w] = wroots[w]
                /\ oldRoots'[w] # 0)]_vars

\* C16 witness: a fan-out of a changed active root has reached two subscribers.
C16_Witness ==
    \E w \in Watchers :
        /\ wpc[w] = "run"
        /\ oldRoots[w] >= 2
        /\ Cardinality({f \in rootWatchSubscribers : rootUpdateCh[f] = 1}) >= 2

\* C17: a subscriber channel never holds more than one notification, and
\* whoever holds rootWatchMu (the watcher in its fan-out, a Fetch in
\* fetchStart or fetchDone) can take its step and release it whatever the
\* other tasks do: the fan-out needs no Fetch to consume anything.
C17_WatcherNeverBlocks ==
    /\ \A f \in Fetchers : rootUpdateCh[f] \in {0, 1}
    /\ \A w \in Watchers :
          wpc[w] = "fanout" => (rootWatchMu = WatcherHolder(w) /\ ENABLED WatcherFanout(w))
    /\ \A f \in Fetchers :
          /\ pc[f] = "fetchStartLocked"
             => (rootWatchMu = FetchHolder(f) /\ ENABLED FetchStartBody(f, "ok"))
          /\ pc[f] = "fetchDoneLocked"
             => (rootWatchMu = FetchHolder(f) /\ ENABLED FetchDoneBody(f))
    /\ rootWatchMu # Unlocked
       => \/ \E w \in Watchers : wpc[w] = "fanout"
          \/ \E f \in Fetchers : pc[f] \in {"fetchStartLocked", "fetchDoneLocked"}

\* C17 witness: the watcher holds rootWatchMu for a fan-out while a
\* subscriber's channel is still full from the last one.
C17_Witness ==
    \E w \in Watchers :
        /\ wpc[w] = "fanout"
        /\ oldRoots[w] # 0
        /\ \E f \in rootWatchSubscribers : rootUpdateCh[f] = 1

\* The waiting Fetch f handles a roots notification in this step while the
\* active root's signing key is not the one in its state.
HandlesChangedKey(f) ==
    /\ pc[f] = "wait" /\ pc'[f] = "wait"
    /\ rootUpdateCh[f] = 1 /\ rootUpdateCh'[f] = 0
    /\ state[f].authorityKeyID # ActiveSigningKeyID

\* C18: a waiting Fetch that handles a notification under a changed signing
\* key sets forceExpireAfter to an instant from now to now + jitter (the test
\* override when positive, else caChangeInitialJitter) and lowers its target
\* to that instant only if it precedes the target; while a Fetch waits its
\* target never moves later.
C18_ForceExpireWithinJitter ==
    [][\A f \in Fetchers :
         /\ HandlesChangedKey(f)
            => LET jitter == IF testSetCAChangeInitialJitter > 0
                             THEN testSetCAChangeInitialJitter
                             ELSE caChangeInitialJitter
                   T == state'[f].forceExpireAfter
               IN /\ now <= T /\ T <= now + jitter
                  /\ expiresAt'[f] = IF T < expiresAt[f] THEN T ELSE expiresAt[f]
         /\ (pc[f] = "wait" /\ pc'[f] = "wait") => expiresAt'[f] <= expiresAt[f]]_vars

\* C18 witness: the instant drawn did not precede the target, which stayed.
C18_Witness ==
    \E f \in Fetchers :
        /\ pc[f] = "wait"
        /\ wake[f] = "diff"
        /\ state[f].forceExpireAfter > expiresAt[f]

\* The signing RPC of Fetch f returns an error in this step: the call leaves
\* the RPC and the servers issued no cert.
SignErrorStep(f) == pc[f] = "rpc" /\ pc'[f] # "rpc" /\ nextIndex' = nextIndex

\* C19: when the signing RPC returns an error the Fetch returns an error, and
\* the entry's cached value and fetch state are those the previous successful
\* generation left: the cert it returned, that cert's authority key ID and a
\* zero forceExpireAfter.
C19_SignErrorKeepsLastSuccess ==
    [][\A f \in Fetchers :
         /\ (SignErrorStep(f) /\ ~lastResult[f].IsNil)
            => (/\ deferred[f] => ret'[f].kind = "error"
                /\ lastResult'[f] = lastResult[f]
                /\ state'[f] = StateOf(lastResult[f].Value))
         /\ (Returning(f) /\ ret[f].kind = "error" /\ pc'[f] = "idle")
            => lastResult'[f] = lastResult[f]]_vars

\* C20: for now strictly between cert.ValidAfter and cert.ValidBefore,
\* calculateSoftExpiry(now, cert) returns min and max with min <= max,
\* min >= now and max <= cert.ValidBefore.
C20_SoftExpiryWindow ==
    (/\ softRet # <<>>
     /\ softArgs.cert.ValidAfter < softArgs.now
     /\ softArgs.now < softArgs.cert.ValidBefore)
    => (/\ softRet[1] <= softRet[2]
        /\ softRet[1] >= softArgs.now
        /\ softRet[2] <= softArgs.cert.ValidBefore)

\* C20 witness: a cert of at least ten minutes, with now exactly at its 90%
\* mark: the window is the single instant now.
C20_Witness ==
    LET life == softArgs.cert.ValidBefore - softArgs.cert.ValidAfter
    IN /\ softRet = <<softArgs.now, softArgs.now>>
       /\ life >= TenMinutes
       /\ 10 * (softArgs.now - softArgs.cert.ValidAfter) = 9 * life

\* C21: a Fetch call invokes the signing RPC at most once, whatever its path:
\* none while it registers and waits, exactly one once it is in the RPC, and
\* none at all when it returns on caller timeout.
C21_SignRPCAtMostOnce ==
    \A f \in Fetchers :
        /\ signCalls[f] \in {0, 1}
        /\ pc[f] \in {"idle", "fetchStart", "fetchStartLocked", "wait"} => signCalls[f] = 0
        /\ pc[f] = "rpc" => signCalls[f] = 1
        /\ (Returning(f) /\ ret[f].kind = "timeout") => signCalls[f] = 0

\* C21 witness: a Fetch that waited and handled a notification under a changed
\* signing key is returning after its signing RPC failed.
C21_Witness ==
    \E f \in Fetchers :
        /\ Returning(f)
        /\ ret[f].kind = "error"
        /\ signCalls[f] = 1
        /\ ~IsZero(state[f].forceExpireAfter)

\* C22: once an entry's forceExpireAfter is a non-zero instant T, no step
\* moves it to a later instant for as long as it stays set (it is zero again
\* after the next successful generation): a further notification under a
\* changed signing key, in the same Fetch or in a later one, does not postpone
\* the deadline.
C22_DeadlineNeverPostponed ==
    [][\A f \in Fetchers :
         (~IsZero(state[f].forceExpireAfter) /\ ~IsZero(state'[f].forceExpireAfter))
         => state'[f].forceExpireAfter <= state[f].forceExpireAfter]_vars

====
